---- MODULE Spec2Model ----
(***************************************************************************)
(* TransferReceiver of libuavcan (transport/transfer_receiver.cpp): the    *)
(* per-source state machine that reassembles a transfer from CAN frames.   *)
(* The receiver's fields keep their source names.  The frame accessors,    *)
(* the TransferID counter, the buffer accessor and the class constants     *)
(* live in headers; they are modelled from their documented contracts.     *)
(***************************************************************************)
EXTENDS Integers, Sequences, FiniteSets, TLC

\* ------------------------------------------------------------------ bounds
MaxTime == 6          \* the monotonic timestamps of frames are at most MaxTime
MaxPayloadLen == 3    \* frames carry at most MaxPayloadLen payload bytes

\* ------------------------------------------------- constants of the program
CRC_LEN == 2
MaxCanIfaces == 2                 \* interfaces 0..MaxCanIfaces-1
BITLEN == 2                       \* TransferID::BITLEN
FRAME_INDEX_MAX == 2              \* Frame::FRAME_INDEX_MAX
IFACE_INDEX_NOTSET == 255         \* TransferReceiver::IFACE_INDEX_NOTSET
MIN_TRANSFER_INTERVAL == 1
DEFAULT_TRANSFER_INTERVAL == 2
MAX_TRANSFER_INTERVAL == 3

TID_SAME == "TID_SAME"
TID_FUTURE == "TID_FUTURE"
TID_REPEAT == "TID_REPEAT"

RESULT_NOT_COMPLETE == "RESULT_NOT_COMPLETE"
RESULT_COMPLETE == "RESULT_COMPLETE"
RESULT_SINGLE_FRAME == "RESULT_SINGLE_FRAME"

TidModulus == 2 ^ BITLEN
Min(a, b) == IF a < b THEN a ELSE b
Max(a, b) == IF a > b THEN a ELSE b

\* ------------------------------------------------------------------ inputs
\* A fault of the buffer pool during a call: none, create() returns NULL, or
\* write() accepts fewer bytes than asked.
Faults == {"none", "create", "write"}

\* ----------------------------------------------------------------- state
VARIABLES
    iface_index_,
    tid_,
    next_frame_index_,
    buffer_write_pos_,
    this_transfer_crc_,
    prev_transfer_ts_monotonic_,
    this_transfer_ts_monotonic_,
    first_frame_ts_utc_,
    transfer_interval_,
    tba,        \* the buffer the TransferBufferAccessor holds for this receiver
    call,       \* the addFrame call the caller has not yet handled
    hist        \* what the earlier calls amount to

rxvars == <<iface_index_, tid_, next_frame_index_, buffer_write_pos_, this_transfer_crc_,
            prev_transfer_ts_monotonic_, this_transfer_ts_monotonic_, first_frame_ts_utc_,
            transfer_interval_>>
vars == <<rxvars, tba, call, hist>>

\* The receiver object as one value.
Self ==
    [iface_index_ |-> iface_index_, tid_ |-> tid_, next_frame_index_ |-> next_frame_index_,
     buffer_write_pos_ |-> buffer_write_pos_, this_transfer_crc_ |-> this_transfer_crc_,
     prev_transfer_ts_monotonic_ |-> prev_transfer_ts_monotonic_,
     this_transfer_ts_monotonic_ |-> this_transfer_ts_monotonic_,
     first_frame_ts_utc_ |-> first_frame_ts_utc_,
     transfer_interval_ |-> transfer_interval_]

\* ------------------------------------------------------- frame accessors
isFirstFrame(frame) == frame.frame_index = 0
isLastFrame(frame) == frame.last_frame
getPayloadLen(frame) == Len(frame.payload)

\* ------------------------------------------------------------ TransferID
forwardDistance(tid, rhs) ==
    LET d == rhs - tid IN IF d < 0 THEN d + TidModulus ELSE d
increment(tid) == (tid + 1) % TidModulus

\* --------------------------------------------------- buffer accessor (tba)
\* held: a buffer exists; data: its bytes; writers: the frames whose payload
\* was written into this buffer object since it was created, in order.
NoBuffer == [held |-> FALSE, data |-> <<>>, writers |-> <<>>]
tbaRemove(t) == NoBuffer
tbaAccess(t) == t.held
tbaCreate(t, ok) == IF ok THEN [NoBuffer EXCEPT !.held = TRUE] ELSE t
bufWrite(t, offset, bytes, who) ==
    LET n == Max(Len(t.data), offset + Len(bytes))
    IN  [t EXCEPT !.data = [i \in 1..n |->
                               IF i > offset /\ i <= offset + Len(bytes) THEN bytes[i - offset]
                               ELSE IF i <= Len(t.data) THEN t.data[i] ELSE 0],
                  !.writers = Append(t.writers, who)]

Writer(frame) ==
    [iface |-> frame.iface_index, tid |-> frame.transfer_id, index |-> frame.frame_index,
     payload |-> frame.payload]

\* ------------------------------------------------------- TransferReceiver
isInitialized(rx) == rx.iface_index_ # IFACE_INDEX_NOTSET

\* Mutant: the ID exactly half the space ahead counts as FUTURE.
getTidRelation_HalfIsFuture(rx, frame) ==
    LET distance == forwardDistance(rx.tid_, frame.transfer_id)
    IN  IF distance = 0 THEN TID_SAME
        ELSE IF distance <= TidModulus \div 2 THEN TID_FUTURE
        ELSE TID_REPEAT

getTidRelation(rx, frame) ==
    LET distance == forwardDistance(rx.tid_, frame.transfer_id)
    IN  IF distance = 0 THEN TID_SAME
        ELSE IF distance < TidModulus \div 2 THEN TID_FUTURE
        ELSE TID_REPEAT

\* Mutant: the interval sample is not clamped.
updateTransferTimings_NoClamp(rx) ==
    LET prev_prev_ts == rx.prev_transfer_ts_monotonic_
        prev == rx.this_transfer_ts_monotonic_
        interval == prev - prev_prev_ts
    IN  IF prev_prev_ts # 0 /\ prev # 0 /\ prev >= prev_prev_ts
        THEN [rx EXCEPT !.prev_transfer_ts_monotonic_ = prev,
                        !.transfer_interval_ = (rx.transfer_interval_ * 7 + interval) \div 8]
        ELSE [rx EXCEPT !.prev_transfer_ts_monotonic_ = prev]

\* Mutant: the running average is rounded up.
updateTransferTimings_RoundUp(rx) ==
    LET prev_prev_ts == rx.prev_transfer_ts_monotonic_
        prev == rx.this_transfer_ts_monotonic_
        interval == Max(Min(prev - prev_prev_ts, MAX_TRANSFER_INTERVAL), MIN_TRANSFER_INTERVAL)
    IN  IF prev_prev_ts # 0 /\ prev # 0 /\ prev >= prev_prev_ts
        THEN [rx EXCEPT !.prev_transfer_ts_monotonic_ = prev,
                        !.transfer_interval_ = (rx.transfer_interval_ * 7 + interval + 7) \div 8]
        ELSE [rx EXCEPT !.prev_transfer_ts_monotonic_ = prev]

updateTransferTimings(rx) ==
    LET prev_prev_ts == rx.prev_transfer_ts_monotonic_
        prev == rx.this_transfer_ts_monotonic_
        interval == Max(Min(prev - prev_prev_ts, MAX_TRANSFER_INTERVAL), MIN_TRANSFER_INTERVAL)
    IN  IF prev_prev_ts # 0 /\ prev # 0 /\ prev >= prev_prev_ts
        THEN [rx EXCEPT !.prev_transfer_ts_monotonic_ = prev,
                        !.transfer_interval_ = (rx.transfer_interval_ * 7 + interval) \div 8]
        ELSE [rx EXCEPT !.prev_transfer_ts_monotonic_ = prev]

\* Mutant: the transfer ID is not advanced.
prepareForNextTransfer_NoIncrement(rx) ==
    [rx EXCEPT !.next_frame_index_ = 0,
               !.buffer_write_pos_ = 0]

\* Mutant: the frame index is not reset.
prepareForNextTransfer_KeepIndex(rx) ==
    [rx EXCEPT !.tid_ = increment(rx.tid_),
               !.buffer_write_pos_ = 0]

prepareForNextTransfer(rx) ==
    [rx EXCEPT !.tid_ = increment(rx.tid_),
               !.next_frame_index_ = 0,
               !.buffer_write_pos_ = 0]

\* Mutant: the frame's interface is not compared with iface_index_.
validate_NoIfaceCheck(rx, frame) ==
    IF isFirstFrame(frame) /\ ~isLastFrame(frame) /\ getPayloadLen(frame) < CRC_LEN THEN FALSE
    ELSE IF frame.frame_index = FRAME_INDEX_MAX /\ ~isLastFrame(frame) THEN FALSE
    ELSE IF frame.frame_index # rx.next_frame_index_ THEN FALSE
    ELSE IF getTidRelation(rx, frame) # TID_SAME THEN FALSE
    ELSE TRUE

\* Mutant: the frame index is not compared with next_frame_index_.
validate_NoIndexCheck(rx, frame) ==
    IF rx.iface_index_ # frame.iface_index THEN FALSE
    ELSE IF isFirstFrame(frame) /\ ~isLastFrame(frame) /\ getPayloadLen(frame) < CRC_LEN THEN FALSE
    ELSE IF frame.frame_index = FRAME_INDEX_MAX /\ ~isLastFrame(frame) THEN FALSE
    ELSE IF getTidRelation(rx, frame) # TID_SAME THEN FALSE
    ELSE TRUE

\* Mutant: the transfer ID is not compared with tid_.
validate_NoTidCheck(rx, frame) ==
    IF rx.iface_index_ # frame.iface_index THEN FALSE
    ELSE IF isFirstFrame(frame) /\ ~isLastFrame(frame) /\ getPayloadLen(frame) < CRC_LEN THEN FALSE
    ELSE IF frame.frame_index = FRAME_INDEX_MAX /\ ~isLastFrame(frame) THEN FALSE
    ELSE IF frame.frame_index # rx.next_frame_index_ THEN FALSE
    ELSE TRUE

validate(rx, frame) ==
    IF rx.iface_index_ # frame.iface_index THEN FALSE
    ELSE IF isFirstFrame(frame) /\ ~isLastFrame(frame) /\ getPayloadLen(frame) < CRC_LEN THEN FALSE
    ELSE IF frame.frame_index = FRAME_INDEX_MAX /\ ~isLastFrame(frame) THEN FALSE
    ELSE IF frame.frame_index # rx.next_frame_index_ THEN FALSE
    ELSE IF getTidRelation(rx, frame) # TID_SAME THEN FALSE
    ELSE TRUE

\* Mutant: the CRC is read big endian.
writePayload_BigEndian(rx, frame, buf, write_ok) ==
    LET payload == frame.payload
        payload_len == getPayloadLen(frame)
    IN  IF isFirstFrame(frame)
        THEN IF payload_len < CRC_LEN
             THEN [success |-> FALSE, rx |-> rx, tba |-> buf]
             ELSE LET crc == payload[2] + payload[1] * 256
                      effective_payload_len == payload_len - CRC_LEN
                      rx1 == [rx EXCEPT !.this_transfer_crc_ = crc]
                  IN  IF write_ok
                      THEN [success |-> TRUE,
                            rx |-> [rx1 EXCEPT !.buffer_write_pos_ = @ + effective_payload_len],
                            tba |-> bufWrite(buf, rx.buffer_write_pos_,
                                             SubSeq(payload, CRC_LEN + 1, payload_len),
                                             Writer(frame))]
                      ELSE [success |-> FALSE, rx |-> rx1, tba |-> buf]
        ELSE IF write_ok
             THEN [success |-> TRUE,
                   rx |-> [rx EXCEPT !.buffer_write_pos_ = @ + payload_len],
                   tba |-> bufWrite(buf, rx.buffer_write_pos_, payload, Writer(frame))]
             ELSE [success |-> FALSE, rx |-> rx, tba |-> buf]

\* Mutant: the first frame advances the write cursor by its whole payload length.
writePayload_CountCrc(rx, frame, buf, write_ok) ==
    LET payload == frame.payload
        payload_len == getPayloadLen(frame)
    IN  IF isFirstFrame(frame)
        THEN IF payload_len < CRC_LEN
             THEN [success |-> FALSE, rx |-> rx, tba |-> buf]
             ELSE LET crc == payload[1] + payload[2] * 256
                      effective_payload_len == payload_len - CRC_LEN
                      rx1 == [rx EXCEPT !.this_transfer_crc_ = crc]
                  IN  IF write_ok
                      THEN [success |-> TRUE,
                            rx |-> [rx1 EXCEPT !.buffer_write_pos_ = @ + payload_len],
                            tba |-> bufWrite(buf, rx.buffer_write_pos_,
                                             SubSeq(payload, CRC_LEN + 1, payload_len),
                                             Writer(frame))]
                      ELSE [success |-> FALSE, rx |-> rx1, tba |-> buf]
        ELSE IF write_ok
             THEN [success |-> TRUE,
                   rx |-> [rx EXCEPT !.buffer_write_pos_ = @ + payload_len],
                   tba |-> bufWrite(buf, rx.buffer_write_pos_, payload, Writer(frame))]
             ELSE [success |-> FALSE, rx |-> rx, tba |-> buf]

\* [success, rx, tba]; write_ok: the buffer accepts every byte of the write.
writePayload(rx, frame, buf, write_ok) ==
    LET payload == frame.payload
        payload_len == getPayloadLen(frame)
    IN  IF isFirstFrame(frame)
        THEN IF payload_len < CRC_LEN
             THEN [success |-> FALSE, rx |-> rx, tba |-> buf]
             ELSE LET crc == payload[1] + payload[2] * 256
                      effective_payload_len == payload_len - CRC_LEN
                      rx1 == [rx EXCEPT !.this_transfer_crc_ = crc]
                  IN  IF write_ok
                      THEN [success |-> TRUE,
                            rx |-> [rx1 EXCEPT !.buffer_write_pos_ = @ + effective_payload_len],
                            tba |-> bufWrite(buf, rx.buffer_write_pos_,
                                             SubSeq(payload, CRC_LEN + 1, payload_len),
                                             Writer(frame))]
                      ELSE [success |-> FALSE, rx |-> rx1, tba |-> buf]
        ELSE IF write_ok
             THEN [success |-> TRUE,
                   rx |-> [rx EXCEPT !.buffer_write_pos_ = @ + payload_len],
                   tba |-> bufWrite(buf, rx.buffer_write_pos_, payload, Writer(frame))]
             ELSE [success |-> FALSE, rx |-> rx, tba |-> buf]

\* Mutant: the first frame's timestamps are not latched.
receive_NoLatch(rx, frame, t, fault) ==
    LET rx1 == rx
        had == IF t.held THEN 1 ELSE 0
    IN  IF isFirstFrame(frame) /\ isLastFrame(frame)
        THEN [rx |-> [prepareForNextTransfer(updateTransferTimings(rx1))
                         EXCEPT !.this_transfer_crc_ = 0],
              tba |-> tbaRemove(t), result |-> RESULT_SINGLE_FRAME, path |-> "single_frame",
              pos |-> rx1.buffer_write_pos_, released |-> had]
        ELSE LET buf == IF tbaAccess(t) THEN t ELSE tbaCreate(t, fault # "create")
             IN  IF ~buf.held
                 THEN [rx |-> prepareForNextTransfer(rx1), tba |-> buf,
                       result |-> RESULT_NOT_COMPLETE, path |-> "no_buffer",
                       pos |-> rx1.buffer_write_pos_, released |-> 0]
                 ELSE LET w == writePayload(rx1, frame, buf, fault # "write")
                      IN  IF ~w.success
                          THEN [rx |-> prepareForNextTransfer(w.rx), tba |-> tbaRemove(w.tba),
                                result |-> RESULT_NOT_COMPLETE, path |-> "write_failed",
                                pos |-> w.rx.buffer_write_pos_, released |-> had]
                          ELSE LET rx2 == [w.rx EXCEPT !.next_frame_index_ = @ + 1]
                               IN  IF isLastFrame(frame)
                                   THEN [rx |-> prepareForNextTransfer(updateTransferTimings(rx2)),
                                         tba |-> w.tba, result |-> RESULT_COMPLETE,
                                         path |-> "complete",
                                         pos |-> rx2.buffer_write_pos_, released |-> 0]
                                   ELSE [rx |-> rx2, tba |-> w.tba,
                                         result |-> RESULT_NOT_COMPLETE, path |-> "more",
                                         pos |-> rx2.buffer_write_pos_, released |-> 0]

\* Mutant: a failed payload write leaves the buffer in the pool.
receive_LeakOnWriteFailure(rx, frame, t, fault) ==
    LET rx1 == IF isFirstFrame(frame)
               THEN [rx EXCEPT !.this_transfer_ts_monotonic_ = frame.ts_monotonic,
                               !.first_frame_ts_utc_ = frame.ts_utc]
               ELSE rx
        had == IF t.held THEN 1 ELSE 0
    IN  IF isFirstFrame(frame) /\ isLastFrame(frame)
        THEN [rx |-> [prepareForNextTransfer(updateTransferTimings(rx1))
                         EXCEPT !.this_transfer_crc_ = 0],
              tba |-> tbaRemove(t), result |-> RESULT_SINGLE_FRAME, path |-> "single_frame",
              pos |-> rx1.buffer_write_pos_, released |-> had]
        ELSE LET buf == IF tbaAccess(t) THEN t ELSE tbaCreate(t, fault # "create")
             IN  IF ~buf.held
                 THEN [rx |-> prepareForNextTransfer(rx1), tba |-> buf,
                       result |-> RESULT_NOT_COMPLETE, path |-> "no_buffer",
                       pos |-> rx1.buffer_write_pos_, released |-> 0]
                 ELSE LET w == writePayload(rx1, frame, buf, fault # "write")
                      IN  IF ~w.success
                          THEN [rx |-> prepareForNextTransfer(w.rx), tba |-> w.tba,
                                result |-> RESULT_NOT_COMPLETE, path |-> "write_failed",
                                pos |-> w.rx.buffer_write_pos_, released |-> 0]
                          ELSE LET rx2 == [w.rx EXCEPT !.next_frame_index_ = @ + 1]
                               IN  IF isLastFrame(frame)
                                   THEN [rx |-> prepareForNextTransfer(updateTransferTimings(rx2)),
                                         tba |-> w.tba, result |-> RESULT_COMPLETE,
                                         path |-> "complete",
                                         pos |-> rx2.buffer_write_pos_, released |-> 0]
                                   ELSE [rx |-> rx2, tba |-> w.tba,
                                         result |-> RESULT_NOT_COMPLETE, path |-> "more",
                                         pos |-> rx2.buffer_write_pos_, released |-> 0]

\* What receive() returns: the receiver and the buffer after it, its result,
\* path (the branch it returned from), pos (the write cursor before the final
\* reset) and released (1 when it removed a buffer it was handed).
receive(rx, frame, t, fault) ==
    LET rx1 == IF isFirstFrame(frame)
               THEN [rx EXCEPT !.this_transfer_ts_monotonic_ = frame.ts_monotonic,
                               !.first_frame_ts_utc_ = frame.ts_utc]
               ELSE rx
        had == IF t.held THEN 1 ELSE 0
    IN  IF isFirstFrame(frame) /\ isLastFrame(frame)
        THEN [rx |-> [prepareForNextTransfer(updateTransferTimings(rx1))
                         EXCEPT !.this_transfer_crc_ = 0],
              tba |-> tbaRemove(t), result |-> RESULT_SINGLE_FRAME, path |-> "single_frame",
              pos |-> rx1.buffer_write_pos_, released |-> had]
        ELSE LET buf == IF tbaAccess(t) THEN t ELSE tbaCreate(t, fault # "create")
             IN  IF ~buf.held
                 THEN [rx |-> prepareForNextTransfer(rx1), tba |-> buf,
                       result |-> RESULT_NOT_COMPLETE, path |-> "no_buffer",
                       pos |-> rx1.buffer_write_pos_, released |-> 0]
                 ELSE LET w == writePayload(rx1, frame, buf, fault # "write")
                      IN  IF ~w.success
                          THEN [rx |-> prepareForNextTransfer(w.rx), tba |-> tbaRemove(w.tba),
                                result |-> RESULT_NOT_COMPLETE, path |-> "write_failed",
                                pos |-> w.rx.buffer_write_pos_, released |-> had]
                          ELSE LET rx2 == [w.rx EXCEPT !.next_frame_index_ = @ + 1]
                               IN  IF isLastFrame(frame)
                                   THEN [rx |-> prepareForNextTransfer(updateTransferTimings(rx2)),
                                         tba |-> w.tba, result |-> RESULT_COMPLETE,
                                         path |-> "complete",
                                         pos |-> rx2.buffer_write_pos_, released |-> 0]
                                   ELSE [rx |-> rx2, tba |-> w.tba,
                                         result |-> RESULT_NOT_COMPLETE, path |-> "more",
                                         pos |-> rx2.buffer_write_pos_, released |-> 0]

INTERVAL_MULT == TidModulus \div 2 + 1

\* Mutant: the timeout is half the transfer ID space of intervals, without the + 1.
isTimedOut_NoPlusOne(rx, ts_monotonic) ==
    LET ts == rx.this_transfer_ts_monotonic_
    IN  IF ts_monotonic <= ts THEN FALSE
        ELSE (ts_monotonic - ts) > rx.transfer_interval_ * (TidModulus \div 2)

isTimedOut(rx, ts_monotonic) ==
    LET ts == rx.this_transfer_ts_monotonic_
    IN  IF ts_monotonic <= ts THEN FALSE
        ELSE (ts_monotonic - ts) > rx.transfer_interval_ * INTERVAL_MULT

\* Mutant: the timestamp is not compared with this_transfer_ts_monotonic_.
guard_NoThisCheck(rx, frame) ==
    \/ frame.ts_monotonic = 0
    \/ frame.ts_monotonic < rx.prev_transfer_ts_monotonic_

\* Mutant: a zero timestamp is not dropped.
guard_NoZeroCheck(rx, frame) ==
    \/ frame.ts_monotonic < rx.prev_transfer_ts_monotonic_
    \/ frame.ts_monotonic < rx.this_transfer_ts_monotonic_

\* The monotonicity guard at the top of addFrame: TRUE when the frame is dropped.
guard(rx, frame) ==
    \/ frame.ts_monotonic = 0
    \/ frame.ts_monotonic < rx.prev_transfer_ts_monotonic_
    \/ frame.ts_monotonic < rx.this_transfer_ts_monotonic_

\* The locals of addFrame.
locals(rx, frame) ==
    [not_initialized |-> ~isInitialized(rx),
     receiver_timed_out |-> isTimedOut(rx, frame.ts_monotonic),
     same_iface |-> frame.iface_index = rx.iface_index_,
     first_fame |-> isFirstFrame(frame),
     tid_rel |-> getTidRelation(rx, frame),
     iface_timed_out |->
         (frame.ts_monotonic - rx.this_transfer_ts_monotonic_) > rx.transfer_interval_ * 2]

\* Mutant: a first frame with a FUTURE transfer ID restarts from any interface.
need_restart_AnyIface(l) ==
    \/ l.not_initialized
    \/ l.receiver_timed_out
    \/ (l.first_fame /\ l.tid_rel = TID_FUTURE)

\* Mutant: a first frame restarts a stale transfer whatever its transfer ID.
need_restart_StaleAnyTid(l) ==
    \/ l.not_initialized
    \/ l.receiver_timed_out
    \/ (l.same_iface /\ l.first_fame /\ l.tid_rel = TID_FUTURE)
    \/ (l.iface_timed_out /\ l.first_fame)

need_restart(l) ==
    \/ l.not_initialized
    \/ l.receiver_timed_out
    \/ (l.same_iface /\ l.first_fame /\ l.tid_rel = TID_FUTURE)
    \/ (l.iface_timed_out /\ l.first_fame /\ l.tid_rel = TID_FUTURE)

\* Mutant: the restart block does not remove the buffer.
restart_KeepBuffer(rx, frame, t) ==
    [rx |-> [rx EXCEPT !.iface_index_ = frame.iface_index,
                       !.tid_ = frame.transfer_id,
                       !.next_frame_index_ = 0,
                       !.buffer_write_pos_ = 0,
                       !.this_transfer_crc_ = 0],
     tba |-> t,
     released |-> 0]

\* The restart block of addFrame, up to the test of first_fame: [rx, tba, released].
restart(rx, frame, t) ==
    [rx |-> [rx EXCEPT !.iface_index_ = frame.iface_index,
                       !.tid_ = frame.transfer_id,
                       !.next_frame_index_ = 0,
                       !.buffer_write_pos_ = 0,
                       !.this_transfer_crc_ = 0],
     tba |-> tbaRemove(t),
     released |-> IF t.held THEN 1 ELSE 0]

\* Mutant: the transfer ID adopted from a frame that is not first is not advanced.
restartNotFirst_NoIncrement(rx) == rx

\* The restart block's early return for a frame that is not a first frame.
restartNotFirst(rx) == [rx EXCEPT !.tid_ = increment(rx.tid_)]

\* Mutant: a frame that fails validation aborts the transfer.
rejected_Abort(rx, t) == [rx |-> prepareForNextTransfer(rx), tba |-> tbaRemove(t)]

\* What addFrame leaves behind when validate() rejects the frame.
rejected(rx, t) == [rx |-> rx, tba |-> t]

\* What addFrame returns: the receiver and the buffer after the call, its
\* result, and what it did on the way: path (the branch it returned from),
\* restart (need_restart), tid_rel (its local), mid (the receiver after the
\* restart block, as validate() sees it), pos (the write cursor before the
\* final reset), released (how many times the buffer held on entry was removed).
addFrame(rx, frame, t, fault) ==
    IF guard(rx, frame)
    THEN [rx |-> rx, tba |-> t, result |-> RESULT_NOT_COMPLETE, path |-> "guard",
          restart |-> FALSE, tid_rel |-> "none", mid |-> rx,
          pos |-> rx.buffer_write_pos_, released |-> 0]
    ELSE LET l == locals(rx, frame)
             r == need_restart(l)
             st == IF r THEN restart(rx, frame, t) ELSE [rx |-> rx, tba |-> t, released |-> 0]
         IN  IF r /\ ~l.first_fame
             THEN [rx |-> restartNotFirst(st.rx), tba |-> st.tba,
                   result |-> RESULT_NOT_COMPLETE, path |-> "restart_not_first",
                   restart |-> TRUE, tid_rel |-> l.tid_rel, mid |-> st.rx,
                   pos |-> st.rx.buffer_write_pos_, released |-> st.released]
             ELSE IF ~validate(st.rx, frame)
                  THEN LET x == rejected(st.rx, st.tba)
                       IN  [rx |-> x.rx, tba |-> x.tba, result |-> RESULT_NOT_COMPLETE,
                            path |-> "invalid", restart |-> r, tid_rel |-> l.tid_rel,
                            mid |-> st.rx, pos |-> st.rx.buffer_write_pos_,
                            released |-> st.released]
                  ELSE LET c == receive(st.rx, frame, st.tba, fault)
                       IN  [rx |-> c.rx, tba |-> c.tba, result |-> c.result, path |-> c.path,
                            restart |-> r, tid_rel |-> l.tid_rel, mid |-> st.rx,
                            pos |-> c.pos, released |-> st.released + c.released]

\* -------------------------------------------------------------- behaviour
\* call: the addFrame call whose result the caller has not yet handled: the
\* frame and fault it was given, the receiver and buffer before it (pre,
\* pre_tba), and what addFrame returned.  op = "none": no call is pending.
\* hist: what the calls before the pending one amount to: "completed" (a
\* transfer completed and the receiver has not changed since), "aborted" (the
\* previous call ended on an abort-and-reset path) or "none".
NoHist == [kind |-> "none"]

Init ==
    /\ iface_index_ = IFACE_INDEX_NOTSET
    /\ tid_ = 0
    /\ next_frame_index_ = 0
    /\ buffer_write_pos_ = 0
    /\ this_transfer_crc_ = 0
    /\ prev_transfer_ts_monotonic_ = 0
    /\ this_transfer_ts_monotonic_ = 0
    /\ first_frame_ts_utc_ = 0
    /\ transfer_interval_ = DEFAULT_TRANSFER_INTERVAL
    /\ tba = NoBuffer
    /\ call = [op |-> "none"]
    /\ hist = NoHist

AddFrame(frame, fault) ==
    /\ call.op = "none"
    /\ LET c == addFrame(Self, frame, tba, fault)
       IN  /\ iface_index_' = c.rx.iface_index_
           /\ tid_' = c.rx.tid_
           /\ next_frame_index_' = c.rx.next_frame_index_
           /\ buffer_write_pos_' = c.rx.buffer_write_pos_
           /\ this_transfer_crc_' = c.rx.this_transfer_crc_
           /\ prev_transfer_ts_monotonic_' = c.rx.prev_transfer_ts_monotonic_
           /\ this_transfer_ts_monotonic_' = c.rx.this_transfer_ts_monotonic_
           /\ first_frame_ts_utc_' = c.rx.first_frame_ts_utc_
           /\ transfer_interval_' = c.rx.transfer_interval_
           /\ tba' = c.tba
           /\ call' = [op |-> "addFrame", frame |-> frame, fault |-> fault,
                       pre |-> Self, pre_tba |-> tba,
                       result |-> c.result, path |-> c.path, restart |-> c.restart,
                       tid_rel |-> c.tid_rel, mid |-> c.mid, pos |-> c.pos,
                       released |-> c.released]
    /\ UNCHANGED hist

AbortPaths == {"no_buffer", "write_failed", "restart_not_first"}

\* The caller of addFrame handles the result: it takes the payload of a
\* completed transfer and removes the buffer.
Return ==
    /\ call.op = "addFrame"
    /\ tba' = IF call.result = RESULT_COMPLETE THEN tbaRemove(tba) ELSE tba
    /\ hist' = IF call.result \in {RESULT_COMPLETE, RESULT_SINGLE_FRAME}
               THEN [kind |-> "completed", iface |-> call.frame.iface_index,
                     tid |-> call.frame.transfer_id, last |-> call.frame.frame_index]
               ELSE IF call.path \in AbortPaths THEN [kind |-> "aborted"]
               ELSE IF hist.kind = "completed" /\ Self = call.pre /\ tba = call.pre_tba
               THEN hist
               ELSE NoHist
    /\ call' = [op |-> "none"]
    /\ UNCHANGED rxvars

\* The payload of a frame: byte i of the frame with index k is 16 (k + 1) + i,
\* so that every byte of a transfer tells its frame and its place in it.
PayloadOf(index, n) == [i \in 1..n |-> 16 * (index + 1) + i]

Ifaces == 0..(MaxCanIfaces - 1)

Frames(ifaces, times, lens) ==
    {[iface_index |-> i, transfer_id |-> t, frame_index |-> k, last_frame |-> l,
      ts_monotonic |-> ts, ts_utc |-> 100 + ts, payload |-> PayloadOf(k, n)] :
        i \in ifaces, t \in 0..(TidModulus - 1), k \in 0..FRAME_INDEX_MAX, l \in BOOLEAN,
        ts \in times, n \in lens}

\* Spec: frames of every payload length class (no payload, the CRC alone, the
\* CRC and data), with buffer faults, at an early and at a late instant.
Next ==
    \/ \E frame \in Frames(Ifaces, {1, MaxTime}, {0} \cup CRC_LEN..MaxPayloadLen),
          fault \in Faults : AddFrame(frame, fault)
    \/ Return

Spec == Init /\ [][Next]_vars

\* SpecTime: frames at every instant, all with the same payload length and
\* without buffer faults.
NextTime ==
    \/ \E frame \in Frames(Ifaces, 0..MaxTime, {CRC_LEN}) : AddFrame(frame, "none")
    \/ Return

SpecTime == Init /\ [][NextTime]_vars

\* SpecRedundant: after any frames (times 1 and 2, no buffer faults) a sender
\* starts one transfer and sends it on every interface; the copies' frames
\* reach the receiver interleaved in any order that keeps each interface's
\* frames in index order, at any times at which the receiver has not timed
\* out, with buffer faults.  hist then is the record of that transfer: its
\* transfer ID, the index of its last frame, sent[i] (how many frames of the
\* copy on interface i have arrived) and done (the interfaces whose copy
\* addFrame reported complete).
StartRedundant ==
    /\ call.op = "none"
    /\ hist.kind # "dup"
    /\ \E t \in 0..(TidModulus - 1), k \in 0..FRAME_INDEX_MAX :
          hist' = [kind |-> "dup", tid |-> t, last |-> k,
                   sent |-> [i \in Ifaces |-> 0], done |-> {}]
    /\ UNCHANGED <<rxvars, tba, call>>

CopyFrame(i, ts) ==
    [iface_index |-> i, transfer_id |-> hist.tid, frame_index |-> hist.sent[i],
     last_frame |-> (hist.sent[i] = hist.last), ts_monotonic |-> ts, ts_utc |-> 100 + ts,
     payload |-> PayloadOf(hist.sent[i], CRC_LEN)]

SendCopy(i, ts, fault) ==
    /\ hist.kind = "dup"
    /\ hist.sent[i] <= hist.last
    /\ ~isTimedOut(Self, ts)
    /\ AddFrame(CopyFrame(i, ts), fault)

ReturnRedundant ==
    /\ call.op = "addFrame"
    /\ hist.kind = "dup"
    /\ tba' = IF call.result = RESULT_COMPLETE THEN tbaRemove(tba) ELSE tba
    /\ hist' = [hist EXCEPT
                  !.sent[call.frame.iface_index] = @ + 1,
                  !.done = IF call.result \in {RESULT_COMPLETE, RESULT_SINGLE_FRAME}
                           THEN @ \cup {call.frame.iface_index} ELSE @]
    /\ call' = [op |-> "none"]
    /\ UNCHANGED rxvars

NextRedundant ==
    \/ /\ hist.kind # "dup"
       /\ \E frame \in Frames(Ifaces, {1, 2}, {CRC_LEN}) : AddFrame(frame, "none")
    \/ hist.kind # "dup" /\ Return
    \/ StartRedundant
    \/ \E i \in Ifaces, ts \in 1..MaxTime, fault \in Faults : SendCopy(i, ts, fault)
    \/ ReturnRedundant

SpecRedundant == Init /\ [][NextRedundant]_vars

\* ------------------------------------------------------------ properties
\* The vocabulary of the properties, stated on the pending call: its frame, the
\* receiver before it (call.pre) and the receiver after it (the variables).
Called == call.op = "addFrame"
Unchanged == Self = call.pre /\ tba = call.pre_tba
Completes == call.result \in {RESULT_COMPLETE, RESULT_SINGLE_FRAME}

HalfTidSpace == 2 ^ (BITLEN - 1)
Distance(a, b) == (b - a) % TidModulus
Future(pre, f) == Distance(pre.tid_, f.transfer_id) \in 1..(HalfTidSpace - 1)

\* The frame's timestamp is set and not earlier than the recorded ones.
PassesGuard(pre, f) ==
    /\ f.ts_monotonic # 0
    /\ f.ts_monotonic >= pre.prev_transfer_ts_monotonic_
    /\ f.ts_monotonic >= pre.this_transfer_ts_monotonic_
\* The frame arrives more than 2 x adaptive_interval after the transfer start.
Stale(pre, f) ==
    f.ts_monotonic > pre.this_transfer_ts_monotonic_ + 2 * pre.transfer_interval_
\* The frame arrives after the receiver timeout.
TimedOut(pre, f) ==
    f.ts_monotonic >
        pre.this_transfer_ts_monotonic_ + pre.transfer_interval_ * (HalfTidSpace + 1)
Uninitialized(pre) == pre.iface_index_ = IFACE_INDEX_NOTSET
\* A multi-frame transfer is in progress.
InProgress(pre, pre_tba) == pre.next_frame_index_ > 0 /\ pre_tba.held

RECURSIVE SumLens(_)
SumLens(w) == IF w = <<>> THEN 0 ELSE Len(Head(w).payload) + SumLens(Tail(w))
RECURSIVE Concat(_)
Concat(w) == IF w = <<>> THEN <<>> ELSE Head(w).payload \o Concat(Tail(w))
\* The frames 0 .. Len(w)-1 of one transfer on one interface, in order.
OneTransfer(w, iface, tid) ==
    \A i \in 1..Len(w) : w[i].index = i - 1 /\ w[i].tid = tid /\ w[i].iface = iface

\* C1: whenever addFrame returns COMPLETE, the buffer was written by exactly the
\* frames 0, 1, ..., k in that order, all of the transfer ID and the interface
\* of the completing frame, which is the last of them; no other frame wrote to it.
C1_NoInterleavedDelivery ==
    (Called /\ call.result = RESULT_COMPLETE) =>
        LET w == tba.writers
            f == call.frame
        IN  /\ tba.held
            /\ Len(w) = f.frame_index + 1
            /\ OneTransfer(w, f.iface_index, f.transfer_id)
            /\ w[Len(w)] = Writer(f)
            /\ Len(tba.data) = SumLens(w) - CRC_LEN

\* A transfer of FRAME_INDEX_MAX + 1 frames completes, after an earlier
\* transfer had completed.
C1_Witness ==
    /\ Called
    /\ call.result = RESULT_COMPLETE
    /\ call.frame.frame_index = FRAME_INDEX_MAX
    /\ call.pre.prev_transfer_ts_monotonic_ # 0

\* The frame is well formed: a first frame that is not last carries the CRC, a
\* frame with the greatest index is last.
WellFormed(f) ==
    /\ (f.frame_index = 0 /\ ~f.last_frame) => Len(f.payload) >= CRC_LEN
    /\ f.frame_index = FRAME_INDEX_MAX => f.last_frame
\* The frame is the next one of the transfer the receiver is assembling.
InSequence(pre, f) ==
    /\ f.frame_index > 0
    /\ f.iface_index = pre.iface_index_
    /\ f.transfer_id = pre.tid_
    /\ f.frame_index = pre.next_frame_index_
\* What the claim says of a frame of a valid stream: SINGLE_FRAME for a frame
\* that is first and last, NOT_COMPLETE and one more frame consumed for a frame
\* that is not last, COMPLETE for the last frame of several, with the write
\* cursor at the sum of the payload lengths of frames 0..k minus the CRC.
StreamOutcome(f) ==
    IF f.frame_index = 0 /\ f.last_frame
    THEN call.result = RESULT_SINGLE_FRAME
    ELSE IF ~f.last_frame
    THEN /\ call.result = RESULT_NOT_COMPLETE
         /\ next_frame_index_ = f.frame_index + 1
         /\ tba.held
         /\ Len(tba.writers) = f.frame_index + 1
         /\ OneTransfer(tba.writers, f.iface_index, f.transfer_id)
    ELSE /\ call.result = RESULT_COMPLETE
         /\ Len(tba.writers) = f.frame_index + 1
         /\ OneTransfer(tba.writers, f.iface_index, f.transfer_id)
         /\ call.pos = SumLens(tba.writers) - CRC_LEN
\* The receiver admits the first frame of a transfer.
Admits(pre, f) ==
    \/ Uninitialized(pre)
    \/ TimedOut(pre, f)
    \/ (Future(pre, f) /\ (f.iface_index = pre.iface_index_ \/ Stale(pre, f)))
    \/ /\ f.iface_index = pre.iface_index_
       /\ f.transfer_id = pre.tid_
       /\ pre.next_frame_index_ = 0

\* C2 as claimed: every frame of a valid in-sequence stream (a well-formed first
\* frame, or the well-formed next frame of the transfer being assembled, buffer
\* operations succeeding) gets the stream's outcome.
C2_Original ==
    (/\ Called
     /\ call.fault = "none"
     /\ WellFormed(call.frame)
     /\ (call.frame.frame_index = 0 \/ InSequence(call.pre, call.frame)))
        => StreamOutcome(call.frame)

\* C2, amended: the same for a stream whose frames pass the monotonicity guard,
\* whose first frame the receiver admits and whose later frames arrive before
\* the receiver timeout.
C2_ValidStream ==
    (/\ Called
     /\ call.fault = "none"
     /\ WellFormed(call.frame)
     /\ PassesGuard(call.pre, call.frame)
     /\ \/ call.frame.frame_index = 0 /\ Admits(call.pre, call.frame)
        \/ InSequence(call.pre, call.frame) /\ ~TimedOut(call.pre, call.frame))
        => StreamOutcome(call.frame)

\* The last of FRAME_INDEX_MAX + 1 frames of an admitted stream completes it.
C2_Witness ==
    /\ Called
    /\ call.fault = "none"
    /\ WellFormed(call.frame)
    /\ PassesGuard(call.pre, call.frame)
    /\ InSequence(call.pre, call.frame)
    /\ ~TimedOut(call.pre, call.frame)
    /\ call.frame.frame_index = FRAME_INDEX_MAX
    /\ call.result = RESULT_COMPLETE
    /\ call.pos = 3 * MaxPayloadLen - CRC_LEN

\* C3: when a multi-frame transfer completes, transfer_crc is the first two
\* payload bytes of frame 0 read little endian, and the buffer holds frame 0's
\* payload without those two bytes followed by the payloads of frames 1..k.
C3_CrcAndContents ==
    (Called /\ call.result = RESULT_COMPLETE) =>
        LET w == tba.writers
            p == w[1].payload
        IN  /\ Len(w) >= 2
            /\ \A i \in 1..Len(w) : w[i].index = i - 1
            /\ this_transfer_crc_ = p[1] + 256 * p[2]
            /\ tba.data = SubSeq(p, CRC_LEN + 1, Len(p)) \o Concat(Tail(w))

\* Three frames, each with data, complete: the buffer holds A, B and C.
C3_Witness ==
    /\ Called
    /\ call.result = RESULT_COMPLETE
    /\ Len(tba.writers) = 3
    /\ \A i \in 1..3 : Len(tba.writers[i].payload) = MaxPayloadLen
    /\ Len(tba.data) = 3 * MaxPayloadLen - CRC_LEN

\* The case of C4: a multi-frame transfer is in progress on the tracked
\* interface and a first frame with a FUTURE transfer ID arrives on another one.
OtherIfaceFuture(pre, pre_tba, f) ==
    /\ InProgress(pre, pre_tba)
    /\ f.frame_index = 0
    /\ f.iface_index # pre.iface_index_
    /\ Future(pre, f)
\* The receiver has moved to the frame's interface and transfer, and the
\* buffer held before the call was released once.
SwitchedTo(f) ==
    /\ iface_index_ = f.iface_index
    /\ call.mid.tid_ = f.transfer_id
    /\ call.released = 1
    /\ tba.held => tba.writers = <<Writer(f)>>

\* C4 as claimed: while the transfer is not yet stale, the first frame from the
\* other interface (with a timestamp that passes the monotonicity guard) makes
\* the receiver switch to it.
C4_Original ==
    (/\ Called
     /\ OtherIfaceFuture(call.pre, call.pre_tba, call.frame)
     /\ PassesGuard(call.pre, call.frame)
     /\ ~Stale(call.pre, call.frame)
     /\ ~TimedOut(call.pre, call.frame))
        => SwitchedTo(call.frame)

\* C4, amended: while the transfer is not yet stale the frame is dropped and
\* nothing changes; the receiver switches once the frame arrives more than
\* 2 x adaptive_interval after the start of the current transfer.
C4_SwitchOnlyWhenStale ==
    (Called /\ OtherIfaceFuture(call.pre, call.pre_tba, call.frame)) =>
        IF Stale(call.pre, call.frame)
        THEN SwitchedTo(call.frame)
        ELSE call.result = RESULT_NOT_COMPLETE /\ Unchanged

\* The frame from the other interface passes the guard and is not stale.
C4_Witness ==
    /\ Called
    /\ OtherIfaceFuture(call.pre, call.pre_tba, call.frame)
    /\ PassesGuard(call.pre, call.frame)
    /\ call.frame.ts_monotonic > call.pre.this_transfer_ts_monotonic_
    /\ ~Stale(call.pre, call.frame)

\* The case of C5: a frame of the transfer that completed last is submitted
\* again, with a timestamp not earlier than the recorded ones.
Replay(pre, f) ==
    /\ hist.kind = "completed"
    /\ f.iface_index = hist.iface
    /\ f.transfer_id = hist.tid
    /\ f.frame_index <= hist.last
    /\ f.ts_monotonic >= pre.prev_transfer_ts_monotonic_
    /\ f.ts_monotonic >= pre.this_transfer_ts_monotonic_

\* C5 as claimed: the replay is dropped and changes nothing, however late.
C5_Original ==
    (Called /\ Replay(call.pre, call.frame)) =>
        call.result = RESULT_NOT_COMPLETE /\ Unchanged

\* C5, amended: the replay is dropped and changes nothing as long as it
\* arrives before the receiver timeout.
C5_ReplayBeforeTimeout ==
    (Called /\ Replay(call.pre, call.frame) /\ ~TimedOut(call.pre, call.frame)) =>
        call.result = RESULT_NOT_COMPLETE /\ Unchanged

\* The first frame of a completed multi-frame transfer is replayed later.
C5_Witness ==
    /\ Called
    /\ Replay(call.pre, call.frame)
    /\ ~TimedOut(call.pre, call.frame)
    /\ hist.last > 0
    /\ call.frame.frame_index = 0
    /\ call.frame.ts_monotonic > call.pre.this_transfer_ts_monotonic_

\* The case of C6: a multi-frame transfer is in progress and a first frame with
\* a FUTURE transfer ID arrives on the same interface.
SameIfaceFuture(pre, pre_tba, f) ==
    /\ InProgress(pre, pre_tba)
    /\ f.frame_index = 0
    /\ f.iface_index = pre.iface_index_
    /\ Future(pre, f)
\* The new transfer is adopted before the frame is processed, and the old buffer
\* is released once and nothing of it remains.
Adopted(f) ==
    /\ call.restart
    /\ call.mid.tid_ = f.transfer_id
    /\ call.mid.next_frame_index_ = 0
    /\ call.mid.buffer_write_pos_ = 0
    /\ call.released = 1
    /\ tba.held =>
          /\ tba.writers = <<Writer(f)>>
          /\ tba.data = SubSeq(f.payload, CRC_LEN + 1, Len(f.payload))

\* C6 as claimed: every such frame is adopted.
C6_Original ==
    (Called /\ SameIfaceFuture(call.pre, call.pre_tba, call.frame)) => Adopted(call.frame)

\* C6, amended: every such frame whose timestamp is set and not earlier than
\* the recorded ones is adopted.
C6_RestartOnSameIface ==
    (/\ Called
     /\ SameIfaceFuture(call.pre, call.pre_tba, call.frame)
     /\ PassesGuard(call.pre, call.frame))
        => Adopted(call.frame)

\* The new first frame starts a multi-frame transfer in a new buffer.
C6_Witness ==
    /\ Called
    /\ SameIfaceFuture(call.pre, call.pre_tba, call.frame)
    /\ PassesGuard(call.pre, call.frame)
    /\ ~call.frame.last_frame
    /\ tba.held
    /\ next_frame_index_ = 1

\* C7 as claimed: every call in which validate() rejects the frame returns
\* NOT_COMPLETE and changes nothing.
C7_Original ==
    (Called /\ call.path = "invalid") =>
        call.result = RESULT_NOT_COMPLETE /\ Unchanged

\* C7, amended: every call in which no restart fires and validate() rejects the
\* frame returns NOT_COMPLETE and changes nothing; when a restart fires before
\* validate() rejects the frame, the call returns NOT_COMPLETE and what the
\* restart did stays: the buffer is released, the frame's interface and
\* transfer ID are adopted, the index, the cursor and the CRC are reset.
C7_SilentDrop ==
    (Called /\ call.path = "invalid") =>
        /\ call.result = RESULT_NOT_COMPLETE
        /\ IF ~call.restart
           THEN Unchanged
           ELSE /\ Self = call.mid
                /\ ~tba.held
                /\ iface_index_ = call.frame.iface_index
                /\ tid_ = call.frame.transfer_id
                /\ next_frame_index_ = 0
                /\ buffer_write_pos_ = 0
                /\ this_transfer_crc_ = 0

\* A frame that skips ahead (expected 1, got 2) is rejected in mid-transfer.
C7_Witness ==
    /\ Called
    /\ call.path = "invalid"
    /\ ~call.restart
    /\ InProgress(call.pre, call.pre_tba)
    /\ call.frame.iface_index = call.pre.iface_index_
    /\ call.frame.transfer_id = call.pre.tid_
    /\ call.pre.next_frame_index_ = 1
    /\ call.frame.frame_index = 2

\* C8: transfer_interval_ is within [MIN_TRANSFER_INTERVAL, MAX_TRANSFER_INTERVAL]
\* in every reachable state.
C8_IntervalInRange ==
    /\ transfer_interval_ >= MIN_TRANSFER_INTERVAL
    /\ transfer_interval_ <= MAX_TRANSFER_INTERVAL

\* A transfer completes at the same instant as the one before it (a zero gap)
\* with the estimate already at its minimum.
C8_Witness ==
    /\ Called
    /\ Completes
    /\ call.pre.prev_transfer_ts_monotonic_ # 0
    /\ this_transfer_ts_monotonic_ = call.pre.prev_transfer_ts_monotonic_
    /\ call.pre.transfer_interval_ = MIN_TRANSFER_INTERVAL

\* C9: with d = (b - a) mod 2^N for the expected ID a and the incoming ID b,
\* getTidRelation is SAME iff d = 0 (iff a = b), FUTURE iff 0 < d < 2^(N-1),
\* REPEAT iff 2^(N-1) <= d < 2^N.
C9_TidRelation ==
    (Called /\ call.path # "guard") =>
        LET a == call.pre.tid_
            b == call.frame.transfer_id
            d == Distance(a, b)
        IN  /\ (call.tid_rel = TID_SAME) <=> (d = 0)
            /\ (call.tid_rel = TID_SAME) <=> (a = b)
            /\ (call.tid_rel = TID_FUTURE) <=> (0 < d /\ d < HalfTidSpace)
            /\ (call.tid_rel = TID_REPEAT) <=> (HalfTidSpace <= d /\ d < TidModulus)

\* The ID exactly half the space ahead, across the wraparound, is REPEAT.
C9_Witness ==
    /\ Called
    /\ call.path # "guard"
    /\ call.frame.transfer_id < call.pre.tid_
    /\ Distance(call.pre.tid_, call.frame.transfer_id) = HalfTidSpace
    /\ call.tid_rel = TID_REPEAT

\* C10: after an abort-and-reset path the receiver awaits a first frame with
\* no buffer held, and the very next call accepts a valid first frame of the
\* expected transfer ID on the tracked interface, whose timestamp is set and
\* not earlier than the recorded ones: SINGLE_FRAME if it is last,
\* otherwise, the buffer being available, it is written and one frame is consumed.
C10_SelfHealing ==
    /\ (Called /\ call.path \in AbortPaths) =>
          /\ next_frame_index_ = 0
          /\ buffer_write_pos_ = 0
          /\ ~tba.held
    /\ (/\ Called
        /\ hist.kind = "aborted"
        /\ call.frame.frame_index = 0
        /\ WellFormed(call.frame)
        /\ call.frame.iface_index = call.pre.iface_index_
        /\ call.frame.transfer_id = call.pre.tid_
        /\ PassesGuard(call.pre, call.frame))
          => IF call.frame.last_frame
             THEN call.result = RESULT_SINGLE_FRAME
             ELSE call.fault = "none" =>
                    /\ call.result = RESULT_NOT_COMPLETE
                    /\ next_frame_index_ = 1
                    /\ tba.held
                    /\ tba.writers = <<Writer(call.frame)>>

\* After a failed write in mid-transfer the next first frame starts a transfer.
C10_Witness ==
    /\ Called
    /\ hist.kind = "aborted"
    /\ call.frame.frame_index = 0
    /\ ~call.frame.last_frame
    /\ call.frame.iface_index = call.pre.iface_index_
    /\ call.frame.transfer_id = call.pre.tid_
    /\ call.fault = "none"
    /\ next_frame_index_ = 1
    /\ tba.held

\* C11: at the end of every addFrame call that did not return COMPLETE a
\* buffer is held only if next_frame_index_ > 0: every restart, abort and
\* single-frame completion leaves no buffer of an abandoned or finished
\* transfer held (the caller removes the buffer after each COMPLETE).
C11_BufferReleased ==
    (Called /\ call.result # RESULT_COMPLETE) =>
        /\ tba.held => next_frame_index_ > 0
        /\ (call.restart \/ call.path \in AbortPaths \/ call.path = "single_frame") =>
              (tba.held => tba.writers = <<Writer(call.frame)>>)

\* A payload write fails in the middle of a transfer whose buffer holds data.
C11_Witness ==
    /\ Called
    /\ call.path = "write_failed"
    /\ call.pre_tba.held
    /\ Len(call.pre_tba.data) > 0
    /\ call.frame.frame_index > 0
    /\ ~tba.held

\* C12: a call whose frame has a zero monotonic timestamp, or one earlier than
\* prev_transfer_ts_monotonic_ or than this_transfer_ts_monotonic_, returns
\* NOT_COMPLETE before any restart trigger is evaluated, does not touch the
\* buffer and leaves every field of the receiver unchanged, also when the
\* receiver is uninitialized or the frame would otherwise restart it.
C12_MonotonicityGuard ==
    (/\ Called
     /\ \/ call.frame.ts_monotonic = 0
        \/ call.frame.ts_monotonic < call.pre.prev_transfer_ts_monotonic_
        \/ call.frame.ts_monotonic < call.pre.this_transfer_ts_monotonic_)
        => /\ call.result = RESULT_NOT_COMPLETE
           /\ call.path = "guard"
           /\ ~call.restart
           /\ call.tid_rel = "none"
           /\ call.released = 0
           /\ Unchanged

\* A frame without a timestamp reaches a receiver that was never initialized.
C12_Witness ==
    /\ Called
    /\ Uninitialized(call.pre)
    /\ call.frame.ts_monotonic = 0
    /\ call.result = RESULT_NOT_COMPLETE
    /\ ~isInitialized(Self)

\* C13: when addFrame returns COMPLETE or SINGLE_FRAME for a frame with
\* transfer ID t, afterwards tid_ = (t + 1) mod 2^N, next_frame_index_ = 0 and
\* buffer_write_pos_ = 0; and next_frame_index_ grows by exactly 1 in a call
\* that wrote the frame's payload and ends with the transfer open, and grows
\* in no other call: there it is unchanged or reset to 0.
C13_NextTransfer ==
    /\ (Called /\ Completes) =>
          /\ tid_ = (call.frame.transfer_id + 1) % TidModulus
          /\ next_frame_index_ = 0
          /\ buffer_write_pos_ = 0
    /\ Called =>
          IF call.path = "more"
          THEN /\ next_frame_index_ = call.mid.next_frame_index_ + 1
               /\ next_frame_index_ = call.frame.frame_index + 1
               /\ tba.held
               /\ tba.writers[Len(tba.writers)] = Writer(call.frame)
               /\ Len(tba.writers) = next_frame_index_
          ELSE next_frame_index_ \in {0, call.pre.next_frame_index_}

\* The transfer with the greatest transfer ID completes: tid_ wraps to 0.
C13_Witness ==
    /\ Called
    /\ call.result = RESULT_COMPLETE
    /\ call.frame.transfer_id = TidModulus - 1
    /\ call.frame.frame_index = FRAME_INDEX_MAX
    /\ tid_ = 0

\* The frame with which a first frame of transfer ID t would arrive.
FirstFrameOf(t) == [transfer_id |-> t, frame_index |-> 0]

\* C14: when a frame that is not a first frame passes the monotonicity guard
\* and finds the receiver uninitialized or timed out, addFrame releases the
\* held buffer, sets iface_index_ to the frame's interface and tid_ to the
\* frame's transfer ID + 1 (mod 2^N), resets next_frame_index_,
\* buffer_write_pos_ and this_transfer_crc_ to 0, writes no payload and returns
\* NOT_COMPLETE; a first frame with the transfer ID of the frame + 1 is then
\* SAME for the receiver, not REPEAT.
C14_RestartByContinuation ==
    (/\ Called
     /\ PassesGuard(call.pre, call.frame)
     /\ Uninitialized(call.pre) \/ TimedOut(call.pre, call.frame)
     /\ call.frame.frame_index # 0)
        => /\ call.result = RESULT_NOT_COMPLETE
           /\ tba = NoBuffer
           /\ call.released = (IF call.pre_tba.held THEN 1 ELSE 0)
           /\ iface_index_ = call.frame.iface_index
           /\ tid_ = (call.frame.transfer_id + 1) % TidModulus
           /\ next_frame_index_ = 0
           /\ buffer_write_pos_ = 0
           /\ this_transfer_crc_ = 0
           /\ getTidRelation(Self, FirstFrameOf((call.frame.transfer_id + 1) % TidModulus))
                 = TID_SAME

\* A continuation frame of the greatest transfer ID arrives on the other
\* interface after the receiver timeout, while a transfer holds a buffer.
C14_Witness ==
    /\ Called
    /\ PassesGuard(call.pre, call.frame)
    /\ ~Uninitialized(call.pre)
    /\ TimedOut(call.pre, call.frame)
    /\ call.frame.frame_index # 0
    /\ call.frame.iface_index # call.pre.iface_index_
    /\ call.frame.transfer_id = TidModulus - 1
    /\ call.pre_tba.held
    /\ call.released = 1
    /\ tid_ = 0

\* C15: isTimedOut(now) is true iff now > this_transfer_ts_monotonic_ and
\* now - this_transfer_ts_monotonic_ > transfer_interval_ x (2^(N-1) + 1); and
\* a frame that passes the monotonicity guard and for which isTimedOut is true
\* restarts the receiver whatever its interface, transfer ID relation and
\* frame index: the held buffer is released and the frame's interface and
\* transfer ID are adopted.
C15_ReceiverTimeout ==
    /\ \A now \in 0..(MaxTime + 1) :
          isTimedOut(Self, now) <=>
              /\ now > this_transfer_ts_monotonic_
              /\ now - this_transfer_ts_monotonic_ >
                     transfer_interval_ * (2 ^ (BITLEN - 1) + 1)
    /\ (/\ Called
        /\ PassesGuard(call.pre, call.frame)
        /\ call.frame.ts_monotonic > call.pre.this_transfer_ts_monotonic_
        /\ call.frame.ts_monotonic - call.pre.this_transfer_ts_monotonic_ >
               call.pre.transfer_interval_ * (2 ^ (BITLEN - 1) + 1))
          => /\ call.restart
             /\ call.released = (IF call.pre_tba.held THEN 1 ELSE 0)
             /\ tba.held => tba.writers = <<Writer(call.frame)>>
             /\ call.mid.iface_index_ = call.frame.iface_index
             /\ call.mid.tid_ = call.frame.transfer_id
             /\ iface_index_ = call.frame.iface_index

\* After the timeout a first frame with a REPEAT transfer ID from the other
\* interface takes over from a transfer that holds a buffer.
C15_Witness ==
    /\ Called
    /\ TimedOut(call.pre, call.frame)
    /\ call.tid_rel = TID_REPEAT
    /\ call.frame.frame_index = 0
    /\ call.frame.iface_index # call.pre.iface_index_
    /\ call.pre_tba.held
    /\ call.path = "more"
    /\ iface_index_ = call.frame.iface_index

\* The frame is a first frame with a FUTURE transfer ID that arrives more than
\* 2 x transfer_interval_ after the start of the current transfer.
Failover(pre, f) == f.frame_index = 0 /\ Future(pre, f) /\ Stale(pre, f)

\* C16: for an initialized receiver that has not timed out, a frame from an
\* interface other than the tracked one changes iface_index_ iff it is a first
\* frame with a FUTURE transfer ID whose timestamp exceeds
\* this_transfer_ts_monotonic_ by more than 2 x transfer_interval_; every other
\* frame from another interface is rejected with NOT_COMPLETE, and
\* iface_index_ changes in no call in which no restart fires.
C16_InterfaceStickiness ==
    /\ (/\ Called
        /\ ~Uninitialized(call.pre)
        /\ ~TimedOut(call.pre, call.frame)
        /\ call.frame.iface_index # call.pre.iface_index_)
          => /\ (iface_index_ # call.pre.iface_index_) <=> Failover(call.pre, call.frame)
             /\ Failover(call.pre, call.frame) => iface_index_ = call.frame.iface_index
             /\ ~Failover(call.pre, call.frame) =>
                    call.result = RESULT_NOT_COMPLETE /\ Unchanged
    /\ (Called /\ ~call.restart) => iface_index_ = call.pre.iface_index_

\* Before the receiver timeout, a stale transfer that holds a buffer gives
\* way to a new transfer from the other interface.
C16_Witness ==
    /\ Called
    /\ ~Uninitialized(call.pre)
    /\ ~TimedOut(call.pre, call.frame)
    /\ call.frame.iface_index # call.pre.iface_index_
    /\ Failover(call.pre, call.frame)
    /\ call.pre_tba.held
    /\ iface_index_ = call.frame.iface_index
    /\ call.path = "more"

\* The interval sample clamped to [MIN_TRANSFER_INTERVAL, MAX_TRANSFER_INTERVAL].
Clamp(x) ==
    IF x < MIN_TRANSFER_INTERVAL THEN MIN_TRANSFER_INTERVAL
    ELSE IF x > MAX_TRANSFER_INTERVAL THEN MAX_TRANSFER_INTERVAL
    ELSE x

\* C17: updateTransferTimings runs once per completed transfer: when the
\* previous transfer start is non-zero and not later than the current one,
\* transfer_interval_ becomes floor((7 x old + clamp(current - previous)) / 8),
\* otherwise it is unchanged; in both cases prev_transfer_ts_monotonic_ becomes
\* the current transfer start.  A call that completes no transfer changes
\* neither.
C17_IntervalUpdate ==
    Called =>
        LET old == call.pre.transfer_interval_
            previous == call.pre.prev_transfer_ts_monotonic_
            current == this_transfer_ts_monotonic_
        IN  IF Completes
            THEN /\ transfer_interval_ =
                       IF previous # 0 /\ previous <= current
                       THEN (7 * old + Clamp(current - previous)) \div 8
                       ELSE old
                 /\ prev_transfer_ts_monotonic_ = current
            ELSE /\ transfer_interval_ = old
                 /\ prev_transfer_ts_monotonic_ = previous

\* A gap longer than MAX_TRANSFER_INTERVAL between two transfers is clamped
\* before it is folded into an estimate that is at its minimum.
C17_Witness ==
    /\ Called
    /\ Completes
    /\ call.pre.prev_transfer_ts_monotonic_ # 0
    /\ this_transfer_ts_monotonic_ - call.pre.prev_transfer_ts_monotonic_ > MAX_TRANSFER_INTERVAL
    /\ call.pre.transfer_interval_ = MIN_TRANSFER_INTERVAL
    /\ transfer_interval_ = MIN_TRANSFER_INTERVAL

\* C18: the assertion of updateTransferTimings holds whenever it runs: when a
\* transfer completes (COMPLETE or SINGLE_FRAME), this_transfer_ts_monotonic_
\* is greater than 0; a multi-frame transfer completes only after a first frame
\* with a non-zero timestamp was accepted for it, whose timestamps the
\* receiver still carries.
C18_AssertionHolds ==
    (Called /\ Completes) =>
        /\ this_transfer_ts_monotonic_ > 0
        /\ first_frame_ts_utc_ = 100 + this_transfer_ts_monotonic_
        /\ call.result = RESULT_SINGLE_FRAME =>
              this_transfer_ts_monotonic_ = call.frame.ts_monotonic
        /\ call.result = RESULT_COMPLETE =>
              /\ tba.writers[1].index = 0
              /\ this_transfer_ts_monotonic_ <= call.frame.ts_monotonic

\* The first transfer a receiver ever completes is a multi-frame one.
C18_Witness ==
    /\ Called
    /\ call.result = RESULT_COMPLETE
    /\ call.pre.prev_transfer_ts_monotonic_ = 0
    /\ this_transfer_ts_monotonic_ > 0
    /\ prev_transfer_ts_monotonic_ = this_transfer_ts_monotonic_

\* C19: in every reachable state prev_transfer_ts_monotonic_ <=
\* this_transfer_ts_monotonic_, and no addFrame call decreases either; so the
\* unsigned subtractions of addFrame (frame timestamp -
\* this_transfer_ts_monotonic_, past the guard) and of updateTransferTimings
\* (current - previous, on completion) are never negative.
C19_TimestampOrder ==
    /\ prev_transfer_ts_monotonic_ <= this_transfer_ts_monotonic_
    /\ Called =>
          /\ call.pre.prev_transfer_ts_monotonic_ <= prev_transfer_ts_monotonic_
          /\ call.pre.this_transfer_ts_monotonic_ <= this_transfer_ts_monotonic_
          /\ call.path # "guard" =>
                call.frame.ts_monotonic - call.pre.this_transfer_ts_monotonic_ >= 0
          /\ Completes =>
                this_transfer_ts_monotonic_ - call.pre.prev_transfer_ts_monotonic_ >= 0

\* A transfer that started later than the one before it completes: both
\* timestamps advance.
C19_Witness ==
    /\ Called
    /\ Completes
    /\ call.pre.prev_transfer_ts_monotonic_ # 0
    /\ call.pre.prev_transfer_ts_monotonic_ < prev_transfer_ts_monotonic_
    /\ call.pre.this_transfer_ts_monotonic_ < this_transfer_ts_monotonic_

\* The interfaces whose copy of the transfer has been reported complete, the
\* pending call included.
Delivered ==
    hist.done \cup (IF Called /\ Completes THEN {call.frame.iface_index} ELSE {})

\* C20: when one valid transfer is sent on two interfaces and the frames of the
\* copies are interleaved, each interface's frames in index order, without a
\* receiver timeout, addFrame returns COMPLETE or SINGLE_FRAME for the
\* transfer at most once: a copy is reported complete once at most, and every
\* frame of another copy than the one reported returns NOT_COMPLETE.
C20_Deduplication ==
    hist.kind = "dup" =>
        /\ Cardinality(Delivered) <= 1
        /\ (Called /\ Completes) => call.frame.iface_index \notin hist.done
        /\ (Called /\ hist.done # {} /\ call.frame.iface_index \notin hist.done) =>
              call.result = RESULT_NOT_COMPLETE
        /\ (Called /\ Completes) =>
              \A j \in Ifaces \ {call.frame.iface_index} :
                  \A n \in 1..Len(tba.writers) : tba.writers[n].iface # j

\* The copy on one interface completes a transfer of FRAME_INDEX_MAX + 1
\* frames when the first frame of the other copy has already arrived and the
\* rest of it is still to come.
C20_Witness ==
    /\ hist.kind = "dup"
    /\ Called
    /\ call.result = RESULT_COMPLETE
    /\ call.frame.frame_index = FRAME_INDEX_MAX
    /\ \E j \in Ifaces \ {call.frame.iface_index} : hist.sent[j] = 1
====
